---- MODULE Spec2Model ----
(***************************************************************************)
(* Model of GoogleMapsScraper (src/src/scraper.py): one scrape_all session *)
(* driving search, scroll_results, get_listing_urls and scrape_listing     *)
(* against a browser page whose behaviour is the environment.              *)
(***************************************************************************)
EXTENDS Integers, Sequences, FiniteSets, TLC

(* ---------------------------------------------------------------- bounds *)
MaxLimit == 2
Cap == 3
MaxText == 3

(* ------------------------------------------------------------- the inputs *)
\* href attribute values an anchor of the results feed can yield; "" stands
\* for get_attribute returning None or an empty string.
Hrefs == {"", "u1", "u2"}

\* every rendered list of at most Cap anchors
Snapshots == UNION {[1..n -> Hrefs] : n \in 0..Cap}

Min(a, b) == IF a <= b THEN a ELSE b

(* ------------------------------------------------- optional values, text *)
\* Python None is the empty tuple, a present value v is <<v>>.
None == <<>>
Some(v) == <<v>>

\* Text is a sequence of one-character strings.
\* The characters str.strip() removes (str.isspace): the ASCII white space
\* and separators U+0009..U+000D, U+001C..U+001F and U+0020, then U+0085,
\* U+00A0 and U+1680.  Python also removes U+2000..U+200A, U+2028, U+2029,
\* U+202F, U+205F and U+3000, which a TLA+ string cannot hold.
IsSpace(c) == c \in {" ", "\t", "\n", "", "\f", "\r",
                     "", "", "", "", "", " ", " "}

RECURSIVE LStrip(_)
LStrip(s) == IF s = <<>> THEN <<>>
             ELSE IF IsSpace(Head(s)) THEN LStrip(Tail(s)) ELSE s

RECURSIVE RStrip(_)
RStrip(s) == IF s = <<>> THEN <<>>
             ELSE IF IsSpace(s[Len(s)]) THEN RStrip(SubSeq(s, 1, Len(s) - 1)) ELSE s

\* str.strip()
Strip(s) == RStrip(LStrip(s))

\* str.replace(old, new) for a one-character old and a text new
RECURSIVE Replace(_, _, _)
Replace(s, old, new) ==
    IF s = <<>> THEN <<>>
    ELSE (IF Head(s) = old THEN new ELSE <<Head(s)>>) \o Replace(Tail(s), old, new)

\* Python truthiness of an optional text: neither None nor ""
Truthy(opt) == opt # None /\ opt[1] # <<>>

(* ------------------------------------------------------- scroll_results *)
\* the stall threshold of the no-change streak
StallThreshold == 3

\* the target test with a strict comparison
TargetReached_Strict(current_count, max_results) == current_count > max_results

\* scraper.py:91, "if current_count >= max_results"
TargetReached(current_count, max_results) == current_count >= max_results

\* the streak without the else branch that resets it
NextStreak_NoReset(current_count, previous_count, no_change_count) ==
    IF current_count = previous_count THEN no_change_count + 1 ELSE no_change_count

\* the streak reset on every iteration, so that it never builds up
NextStreak_Zero(current_count, previous_count, no_change_count) == 0

\* scraper.py:102-108, the new value of no_change_count
NextStreak(current_count, previous_count, no_change_count) ==
    IF current_count = previous_count THEN no_change_count + 1 ELSE 0

\* scraper.py:102-106, the stalled break: the counts are equal and the
\* incremented streak has reached the threshold
Stalled(current_count, previous_count, no_change_count) ==
    /\ current_count = previous_count
    /\ NextStreak(current_count, previous_count, no_change_count) >= StallThreshold

\* the faults one loop iteration can meet: none, or an exception thrown by
\* the count query, by the end-marker query or by the scroll evaluation
IterFaults == {"none", "measure", "marker", "scroll"}

\* the iteration with the stall test moved before the end-marker test
IterOutcome_StallFirst(current_count, max_results, end_message, previous_count, no_change_count, fault) ==
    IF fault = "measure" THEN "error"
    ELSE IF current_count >= max_results THEN "target"
    ELSE IF current_count = previous_count /\ no_change_count + 1 >= 3 THEN "stalled"
    ELSE IF fault = "marker" THEN "error"
    ELSE IF end_message THEN "end"
    ELSE IF fault = "scroll" THEN "error"
    ELSE "continue"

\* scraper.py:83-120, what one iteration of the while loop decides, in the
\* order the code tests it
IterOutcome(current_count, max_results, end_message, previous_count, no_change_count, fault) ==
    IF fault = "measure" THEN "error"
    ELSE IF TargetReached(current_count, max_results) THEN "target"
    ELSE IF fault = "marker" THEN "error"
    ELSE IF end_message THEN "end"
    ELSE IF Stalled(current_count, previous_count, no_change_count) THEN "stalled"
    ELSE IF fault = "scroll" THEN "error"
    ELSE "continue"

\* scraper.py:122-126, the value scroll_results returns for an outcome
ScrollReturn(outcome, current_count) ==
    IF outcome \in {"target", "end", "stalled"} THEN current_count ELSE 0

(* ----------------------------------------------------- get_listing_urls *)
\* the loop without the "href not in urls" test
RECURSIVE CollectUrls_NoDedup(_, _)
CollectUrls_NoDedup(hrefs, urls) ==
    IF hrefs = <<>> THEN urls
    ELSE IF Head(hrefs) # "" THEN CollectUrls_NoDedup(Tail(hrefs), Append(urls, Head(hrefs)))
    ELSE CollectUrls_NoDedup(Tail(hrefs), urls)

\* scraper.py:138-142, the loop that keeps each truthy href once
RECURSIVE CollectUrls(_, _)
CollectUrls(hrefs, urls) ==
    IF hrefs = <<>> THEN urls
    ELSE LET href == Head(hrefs)
         IN  IF href # "" /\ \A i \in 1..Len(urls) : urls[i] # href
             THEN CollectUrls(Tail(hrefs), Append(urls, href))
             ELSE CollectUrls(Tail(hrefs), urls)

\* the list built by prepending, so that the last-seen anchor comes first
RECURSIVE CollectReversed(_, _)
CollectReversed(hrefs, urls) ==
    IF hrefs = <<>> THEN urls
    ELSE LET href == Head(hrefs)
         IN  IF href # "" /\ \A i \in 1..Len(urls) : urls[i] # href
             THEN CollectReversed(Tail(hrefs), <<href>> \o urls)
             ELSE CollectReversed(Tail(hrefs), urls)

GetListingUrls_Reversed(hrefs, throws) ==
    IF throws THEN <<>> ELSE CollectReversed(hrefs, <<>>)

\* scraper.py:135-149
GetListingUrls(hrefs, throws) == IF throws THEN <<>> ELSE CollectUrls(hrefs, <<>>)

(* -------------------------------------------------------- scrape_listing *)
\* The decimal digits of Unicode (category Nd), which \d of a str pattern
\* matches and int() and float() read: each row is one script's 0 to 9, the
\* ASCII digits first.  The rows are the scripts a TLA+ string can hold;
\* Python knows further ones (Arabic-Indic, Devanagari, fullwidth, ...).
DecimalDigits == {
    <<"0", "1", "2", "3", "4", "5", "6", "7", "8", "9">>,
    <<"۰", "۱", "۲", "۳", "۴", "۵", "۶", "۷", "۸", "۹">>,
    <<"߀", "߁", "߂", "߃", "߄", "߅", "߆", "߇", "߈", "߉">>,
    <<"০", "১", "২", "৩", "৪", "৫", "৬", "৭", "৮", "৯">>,
    <<"૦", "૧", "૨", "૩", "૪", "૫", "૬", "૭", "૮", "૯">>,
    <<"௦", "௧", "௨", "௩", "௪", "௫", "௬", "௭", "௮", "௯">>,
    <<"೦", "೧", "೨", "೩", "೪", "೫", "೬", "೭", "೮", "೯">>,
    <<"෦", "෧", "෨", "෩", "෪", "෫", "෬", "෭", "෮", "෯">>,
    <<"໐", "໑", "໒", "໓", "໔", "໕", "໖", "໗", "໘", "໙">>,
    <<"႐", "႑", "႒", "႓", "႔", "႕", "႖", "႗", "႘", "႙">>,
    <<"០", "១", "២", "៣", "៤", "៥", "៦", "៧", "៨", "៩">>,
    <<"᧐", "᧑", "᧒", "᧓", "᧔", "᧕", "᧖", "᧗", "᧘", "᧙">>,
    <<"᪀", "᪁", "᪂", "᪃", "᪄", "᪅", "᪆", "᪇", "᪈", "᪉">>,
    <<"᪐", "᪑", "᪒", "᪓", "᪔", "᪕", "᪖", "᪗", "᪘", "᪙">>,
    <<"᮰", "᮱", "᮲", "᮳", "᮴", "᮵", "᮶", "᮷", "᮸", "᮹">>,
    <<"꣐", "꣑", "꣒", "꣓", "꣔", "꣕", "꣖", "꣗", "꣘", "꣙">>,
    <<"꧐", "꧑", "꧒", "꧓", "꧔", "꧕", "꧖", "꧗", "꧘", "꧙">>,
    <<"꧰", "꧱", "꧲", "꧳", "꧴", "꧵", "꧶", "꧷", "꧸", "꧹">>,
    <<"꯰", "꯱", "꯲", "꯳", "꯴", "꯵", "꯶", "꯷", "꯸", "꯹">> }

\* scraper.py:197 and 218, does \d match the character c
IsDigit(c) == \E row \in DecimalDigits : \E k \in 1..10 : row[k] = c

\* the value int() gives the digit c
DigitVal(c) == CHOOSE v \in 0..9 : \E row \in DecimalDigits : row[v + 1] = c

\* int() of a text of digits
RECURSIVE ParseInt(_)
ParseInt(s) == IF s = <<>> THEN 0
               ELSE 10 * ParseInt(SubSeq(s, 1, Len(s) - 1)) + DigitVal(s[Len(s)])

RECURSIVE Pow10(_)
Pow10(n) == IF n = 0 THEN 1 ELSE 10 * Pow10(n - 1)

\* index of the first digit of s at or after i, 0 when there is none
RECURSIVE FirstDigit(_, _)
FirstDigit(s, i) == IF i > Len(s) THEN 0
                    ELSE IF IsDigit(s[i]) THEN i ELSE FirstDigit(s, i + 1)

\* index of the last digit of the run of digits that starts at i
RECURSIVE RunEnd(_, _)
RunEnd(s, i) == IF i < Len(s) /\ IsDigit(s[i + 1]) THEN RunEnd(s, i + 1) ELSE i

\* scraper.py:197, re.search(r'(\d+[.,]\d+|\d+)', text): group 1 or None
RatingMatch(text) ==
    LET i == FirstDigit(text, 1)
        j == RunEnd(text, i)
    IN  IF i = 0 THEN None
        ELSE IF j + 2 <= Len(text) /\ text[j + 1] \in {".", ","} /\ IsDigit(text[j + 2])
             THEN Some(SubSeq(text, i, RunEnd(text, j + 2)))
             ELSE Some(SubSeq(text, i, j))

\* a decimal number num / den with den a power of ten, in lowest such form
RECURSIVE Normal(_)
Normal(f) == IF f.den > 1 /\ f.num % 10 = 0
             THEN Normal([num |-> f.num \div 10, den |-> f.den \div 10]) ELSE f

\* scraper.py:199, float(match.group(1).replace(',', '.'))
ParseFloat(tok) ==
    LET t == Replace(tok, ",", <<".">>)
        dots == {k \in 1..Len(t) : t[k] = "."}
    IN  IF dots = {} THEN [num |-> ParseInt(t), den |-> 1]
        ELSE LET k == CHOOSE d \in dots : TRUE
                 frac == SubSeq(t, k + 1, Len(t))
             IN  Normal([num |-> ParseInt(SubSeq(t, 1, k - 1) \o frac),
                         den |-> Pow10(Len(frac))])

\* scraper.py:218, re.search(r'[\(]?([\d]+)[\)]?', clean_text): group 1 or None
ReviewsMatch(clean_text) ==
    LET i == FirstDigit(clean_text, 1)
    IN  IF i = 0 THEN None ELSE Some(SubSeq(clean_text, i, RunEnd(clean_text, i)))

\* does text p occur in s at index i
OccursAt(s, p, i) == i + Len(p) - 1 <= Len(s) /\ SubSeq(s, i, i + Len(p) - 1) = p

\* str.replace(old, '') for a non-empty text old
RECURSIVE Remove(_, _)
Remove(s, old) ==
    IF s = <<>> THEN <<>>
    ELSE IF OccursAt(s, old, 1) THEN Remove(SubSeq(s, Len(old) + 1, Len(s)), old)
    ELSE <<Head(s)>> \o Remove(Tail(s), old)

\* what one query_selector gives the extractor: no element ("none"), an
\* exception from the query or from the read of the element ("throws"), or
\* an element ("el") with its inner text and the attribute the field reads
Missing == [st |-> "none", text |-> <<>>, attr |-> None]
Throws == [st |-> "throws", text |-> <<>>, attr |-> None]
El(text, attr) == [st |-> "el", text |-> text, attr |-> attr]

\* the first present value of a sequence of optional values: the break of a
\* selector loop
RECURSIVE FirstSome(_)
FirstSome(opts) == IF opts = <<>> THEN None
                   ELSE IF Head(opts) # None THEN Head(opts) ELSE FirstSome(Tail(opts))

\* scraper.py:176-181 (name) and 233-238 (category): one selector attempt
TryText(q) == IF q.st = "el" THEN Some(Strip(q.text)) ELSE None

\* scraper.py:194-202
TryRating(q) ==
    IF q.st # "el" THEN None
    ELSE LET match == RatingMatch(Strip(q.text))
         IN  IF match # None THEN Some(ParseFloat(match[1])) ELSE None

\* the reviews attempt with the periods left in the text
TryReviews_KeepDots(q) ==
    IF q.st # "el" THEN None
    ELSE LET clean_text == Replace(Strip(q.text), ",", <<>>)
             match == ReviewsMatch(clean_text)
         IN  IF match # None THEN Some(ParseInt(match[1])) ELSE None

\* scraper.py:213-223
TryReviews(q) ==
    IF q.st # "el" THEN None
    ELSE LET clean_text == Replace(Replace(Strip(q.text), ".", <<>>), ",", <<>>)
             match == ReviewsMatch(clean_text)
         IN  IF match # None THEN Some(ParseInt(match[1])) ELSE None

\* scraper.py:250-257
TryAddress(q) ==
    IF q.st # "el" THEN None
    ELSE LET text == Strip(q.text)
         IN  IF Len(text) > 5 THEN Some(Replace(text, "\n", <<",", " ">>)) ELSE None

\* scraper.py:268-275
TryPhone(q) ==
    IF q.st # "el" THEN None
    ELSE LET text == Strip(q.text)
         IN  IF text # <<>> THEN Some(Replace(text, "\n", <<" ">>)) ELSE None

\* scraper.py:278-286, the href fallback of the phone
PhoneFromHref(phone, q) ==
    IF Truthy(phone) THEN phone
    ELSE IF q.st = "el" /\ Truthy(q.attr)
         THEN Some(Remove(q.attr[1], <<"t", "e", "l", ":">>))
         ELSE phone

\* scraper.py:297-304
TryWebsite(q) == IF q.st = "el" /\ Truthy(q.attr) THEN q.attr ELSE None

\* scraper.py:315-327
TryHours(q) ==
    IF q.st # "el" THEN None
    ELSE IF Truthy(q.attr) THEN q.attr
    ELSE LET text == Strip(q.text)
         IN  IF text # <<>> THEN Some(Replace(text, "\n", <<",", " ">>)) ELSE None

\* the selector loop of each field: the attempts in cascade order, the first
\* attempt that sets the field ends the loop
NameCascade(qs) == FirstSome([i \in 1..Len(qs) |-> TryText(qs[i])])
RatingCascade(qs) == FirstSome([i \in 1..Len(qs) |-> TryRating(qs[i])])
ReviewsCascade(qs) == FirstSome([i \in 1..Len(qs) |-> TryReviews(qs[i])])
CategoryCascade(qs) == FirstSome([i \in 1..Len(qs) |-> TryText(qs[i])])
AddressCascade(qs) == FirstSome([i \in 1..Len(qs) |-> TryAddress(qs[i])])
PhoneCascade(qs) == FirstSome([i \in 1..Len(qs) |-> TryPhone(qs[i])])
WebsiteCascade(qs) == FirstSome([i \in 1..Len(qs) |-> TryWebsite(qs[i])])
HoursCascade(qs) == FirstSome([i \in 1..Len(qs) |-> TryHours(qs[i])])

\* scraper.py:336-346, the record of a failed extraction
FailureRecord(url) ==
    [name |-> None, rating |-> None, reviews_count |-> None, category |-> None,
     address |-> None, phone |-> None, website |-> None, hours |-> None,
     google_maps_url |-> url]

\* scraper.py:154-158: which await raised, the goto or the wait for h1
FailureOf(page) == IF page.load # "ok" THEN "goto"
                   ELSE IF ~page.h1 THEN "heading" ELSE "none"

ListingFails(page) == FailureOf(page) # "none"

\* the extractor going on to read the fields when the h1 wait fails
ScrapeListing_Partial(url, page) ==
    IF page.load # "ok" THEN FailureRecord(url)
    ELSE [FailureRecord(url) EXCEPT
          !.rating = RatingCascade(page.rating),
          !.category = CategoryCascade(page.category)]

\* scraper.py:151-346
ScrapeListing(url, page) ==
    IF ListingFails(page) THEN FailureRecord(url)
    ELSE [name |-> NameCascade(page.name),
          rating |-> RatingCascade(page.rating),
          reviews_count |-> ReviewsCascade(page.reviews),
          category |-> CategoryCascade(page.category),
          address |-> AddressCascade(page.address),
          phone |-> PhoneFromHref(PhoneCascade(page.phone), page.tel),
          website |-> WebsiteCascade(page.website),
          hours |-> HoursCascade(page.hours),
          google_maps_url |-> IF page.redirect = "" THEN url ELSE page.redirect]

\* the acceptance test written as "name is not None"
Accepted_NotNone(data) == data.name # None

\* scraper.py:386, "if data.get('name')"
Accepted(data) == Truthy(data.name)

(* ------------------------------------------------------------ scrape_all *)
\* the delay moved into the branch that accepts a record
PacedAfter_AcceptedOnly(data) == Accepted(data)

\* scraper.py:381-394, whether the for loop runs human_delay after a record:
\* the call stands after the if/else, so it runs for every record
PacedAfter(data) == TRUE

\* the list without the cut
UrlsToScrape_NoCut(urls, lim) == urls

\* the cut taken from the end of the list, urls[-limit:]
UrlsToScrape_Last(urls, lim) ==
    SubSeq(urls, Len(urls) - Min(lim, Len(urls)) + 1, Len(urls))

\* scraper.py:377, urls[:limit] for a positive limit
UrlsToScrape(urls, lim) == SubSeq(urls, 1, Min(lim, Len(urls)))

\* search reporting success whatever happened
SearchResult_Always(gotoOk, feedAppears) == TRUE

\* scraper.py:367, the target scrape_all hands to scroll_results
ScrollTarget(lim) == lim

\* scraper.py:154, the page scrape_listing navigates: self.page, the page the
\* search ran on
DetailSurface == "primary"

\* scraper.py:46-60, the value search returns
SearchResult(gotoOk, feedAppears) == gotoOk /\ feedAppears

(* ---------------------------------------------------- the detail pages *)
NoEls(n) == [i \in 1..n |-> Missing]

\* a detail page: whether goto loads it, whether the h1 wait succeeds, the
\* url the page ends on ("" for no redirect) and what each selector of each
\* field's cascade yields
BlankPage ==
    [load |-> "ok", h1 |-> TRUE, redirect |-> "",
     name |-> NoEls(3), rating |-> NoEls(6), reviews |-> NoEls(4),
     category |-> NoEls(3), address |-> NoEls(5), phone |-> NoEls(4),
     tel |-> Missing, website |-> NoEls(4), hours |-> NoEls(4)]

\* every primary selector is there
FullPage ==
    [BlankPage EXCEPT
     !.name = <<El(<<"A", "b">>, None), Missing, El(<<"A", "b">>, None)>>,
     !.rating[1] = El(<<"4", ",", "5">>, None),
     !.reviews[1] = El(<<"(", "1", ",", "2", "3", "4", ")">>, None),
     !.category[1] = El(<<"B", "a", "r">>, None),
     !.address[1] = El(<<"1", " ", "M", "a", "i", "n", "\n", "N", "Y">>, None),
     !.phone[1] = El(<<"5", "5", "5", "\n", "1", "2">>, None),
     !.website[1] = El(<<"W">>, Some(<<"w", ".", "c", "o">>)),
     !.hours[1] = El(<<"9", "-", "5">>, Some(<<"M", "o", " ", "9", "-", "5">>))]

\* only late selectors are there, some queries throw, the page redirects
FallbackPage ==
    [BlankPage EXCEPT
     !.redirect = "r1",
     !.name = <<Missing, Throws, El(<<" ", "C", "d", " ">>, None)>>,
     !.rating = <<El(<<"n", "e", "w">>, None), Throws, Missing,
                  El(<<"1", "2", " ", "r", "e", "v">>, None), Missing, Missing>>,
     !.reviews = <<El(<<"n", "o", "n", "e">>, None), Missing,
                   El(<<"1", ".", "2", "3", "4">>, None), Missing>>,
     !.address = <<El(<<"N", "Y">>, None), Missing, Missing, Missing, Missing>>,
     !.tel = El(<<>>, Some(<<"t", "e", "l", ":", "+", "1", " ", "5">>)),
     !.hours = <<Throws, El(<<"9", "\n", "5">>, None), Missing, Missing>>]

\* the first heading exists but holds only white space; the rating and the
\* reviews count are written with digits of another script
EmptyNamePage ==
    [FullPage EXCEPT
     !.name = <<El(<<"\t", " ">>, None), Missing, El(<<"Z", "e", "d">>, None)>>,
     !.rating[1] = El(<<"۴", ",", "5">>, None),
     !.reviews[1] = El(<<"(", "۱", ",", "2", "۳", "4", ")">>, None)]

\* every name query throws, the other fields are there
NamelessPage == [FullPage EXCEPT !.name = <<Throws, Throws, Throws>>]

\* goto does not load the page within its timeout
TimeoutPage == [FullPage EXCEPT !.load = "timeout"]

\* the page loads but no h1 appears within the timeout
NoHeadingPage == [FullPage EXCEPT !.h1 = FALSE, !.name = NoEls(3)]

DetailPages == {FullPage, FallbackPage, EmptyNamePage, NamelessPage,
                TimeoutPage, NoHeadingPage}

\* scrape_listing tabulated over the candidate urls and the detail pages
ListingTable ==
    [url \in Hrefs \ {""} |-> [page \in DetailPages |-> ScrapeListing(url, page)]]

(* ------------------------------------------------------------- the state *)
VARIABLES
    pc,               \* where the session is in scrape_all
    limit,            \* the limit argument of scrape_all
    links,            \* hrefs of the anchors the page renders, in order
    endMarker,        \* whether the page shows the end-of-results message
    pageAt,           \* what self.page shows: "blank", "feed", "detail", "unknown"
    called,           \* the methods the session has invoked so far
    previous_count,   \* scroll_results local
    no_change_count,  \* scroll_results local
    current_count,    \* scroll_results local, the last measured count
    outcome,          \* how scroll_results ended, "none" while it has not
    scrollRet,        \* the value scroll_results returned
    iter,             \* the last loop iteration: its fault, whether a count was
                      \* measured before it, whether it issued a scroll command,
                      \* how many scroll commands in a row left the count as it was
    search_in,        \* what the browser did on the search: goto, feed wait
    snapshot,         \* the anchors get_listing_urls read, None if it threw
    urls,             \* the list get_listing_urls returned
    idx,              \* 1-based position of the for loop in urls[:limit]
    results,          \* the results list of scrape_all
    log,              \* one entry per scrape_listing call: url, page, surface,
                      \* data, fail, and whether the pacing delay followed it
    ret,              \* the value scrape_all returned, None before it returns
    browser,          \* the browser run_scraper holds: "open", "closed" or
                      \* "close_failed"
    probe             \* a selector cascade and what the extractor makes of it

vars == <<pc, limit, links, endMarker, pageAt, called, previous_count,
          no_change_count, current_count, outcome, scrollRet, iter,
          search_in, snapshot, urls, idx, results, log, ret, browser, probe>>

scrollVars == <<previous_count, no_change_count, current_count, outcome,
                scrollRet, iter>>
loopVars == <<snapshot, urls, idx, results, log>>

NoIter == [fault |-> "none", hadPrev |-> FALSE, scrolled |-> FALSE, n |-> 0, same |-> 0]

\* no cascade has been handed to the extractor
NoProbe == [qs |-> <<>>, out |-> None]

Init ==
    /\ pc = "search"
    /\ limit \in 1..MaxLimit
    /\ links = <<>>
    /\ endMarker = FALSE
    /\ pageAt = "blank"
    /\ called = {}
    /\ previous_count = 0
    /\ no_change_count = 0
    /\ current_count = 0
    /\ outcome = "none"
    /\ scrollRet = 0
    /\ iter = NoIter
    /\ search_in = [done |-> FALSE, gotoOk |-> FALSE, feedAppears |-> FALSE]
    /\ snapshot = None
    /\ urls = <<>>
    /\ idx = 0
    /\ results = <<>>
    /\ log = <<>>
    /\ ret = None
    /\ browser = "open"
    /\ probe = NoProbe

(* ----------------------------------------------------------- the actions *)
\* scraper.py:360-364 with search, 30-60: the search fails and scrape_all
\* returns the empty results
SearchFails ==
    /\ pc = "search"
    /\ \E gotoOk \in BOOLEAN, feedAppears \in BOOLEAN :
         /\ ~SearchResult(gotoOk, feedAppears)
         /\ search_in' = [done |-> TRUE, gotoOk |-> gotoOk, feedAppears |-> feedAppears]
         /\ pageAt' = IF gotoOk THEN "unknown" ELSE pageAt
    /\ called' = called \cup {"search"}
    /\ ret' = Some(results)
    /\ pc' = "done"
    /\ UNCHANGED <<limit, browser, probe, links, endMarker, scrollVars, loopVars>>

\* scraper.py:360-364 with search, 30-60: the feed renders some list
SearchSucceeds ==
    /\ pc = "search"
    /\ \E gotoOk \in BOOLEAN, feedAppears \in BOOLEAN :
         /\ SearchResult(gotoOk, feedAppears)
         /\ search_in' = [done |-> TRUE, gotoOk |-> gotoOk, feedAppears |-> feedAppears]
    /\ called' = called \cup {"search"}
    /\ links' \in Snapshots
    /\ endMarker' \in BOOLEAN
    /\ pageAt' = "feed"
    /\ pc' = "scroll_start"
    /\ UNCHANGED <<limit, browser, probe, scrollVars, loopVars, ret>>

\* scraper.py:74-81: the feed lookup that precedes the loop
ScrollStart ==
    /\ pc = "scroll_start"
    /\ called' = called \cup {"scroll_results"}
    /\ \E feed \in {"found", "none", "throws"} :
         IF feed = "found"
         THEN /\ pc' = "scroll"
              /\ previous_count' = 0
              /\ no_change_count' = 0
              /\ UNCHANGED <<outcome, scrollRet>>
         ELSE /\ pc' = "urls"
              /\ outcome' = IF feed = "none" THEN "nofeed" ELSE "error"
              /\ scrollRet' = 0
              /\ UNCHANGED <<previous_count, no_change_count>>
    /\ UNCHANGED <<limit, browser, probe, links, endMarker, pageAt, current_count, iter,
                   search_in, loopVars, ret>>

\* scraper.py:83-126: one iteration of the while loop of scroll_results(limit)
ScrollIter ==
    /\ pc = "scroll"
    /\ \E fault \in IterFaults :
         LET cur == Len(links)
             o == IterOutcome(cur, ScrollTarget(limit), endMarker, previous_count,
                              no_change_count, fault)
         IN  /\ iter' = [fault |-> fault, hadPrev |-> iter.n > 0,
                         scrolled |-> o = "continue", n |-> Min(iter.n + 1, 1),
                         same |-> IF iter.n = 0 \/ fault = "measure" THEN iter.same
                                  ELSE IF cur = current_count
                                       THEN Min(iter.same + 1, StallThreshold)
                                       ELSE 0]
             /\ current_count' = IF fault = "measure" THEN current_count ELSE cur
             /\ IF o = "continue"
                THEN /\ no_change_count' = NextStreak(cur, previous_count, no_change_count)
                     /\ previous_count' = cur
                     /\ links' \in Snapshots
                     /\ endMarker' \in BOOLEAN
                     /\ pc' = "scroll"
                     /\ UNCHANGED <<outcome, scrollRet>>
                ELSE /\ no_change_count' =
                          IF o = "stalled" \/ (o = "error" /\ fault = "scroll")
                          THEN NextStreak(cur, previous_count, no_change_count)
                          ELSE no_change_count
                     /\ previous_count' =
                          IF o = "error" /\ fault = "scroll" THEN cur ELSE previous_count
                     /\ outcome' = o
                     /\ scrollRet' = ScrollReturn(o, cur)
                     /\ pc' = "urls"
                     /\ UNCHANGED <<links, endMarker>>
    /\ UNCHANGED <<limit, browser, probe, pageAt, called, search_in, loopVars, ret>>

\* scraper.py:369-378: get_listing_urls, the empty-list return and the cut
\* to the limit.  The anchors are queried again (scraper.py:136), after the
\* awaits that follow the last count of scroll_results, so the list read
\* here is any list the page can show, not the one that was counted.
ListUrls ==
    /\ pc = "urls"
    /\ called' = called \cup {"get_listing_urls"}
    /\ \E throws \in BOOLEAN, hrefs \in Snapshots :
         /\ links' = IF throws THEN links ELSE hrefs
         /\ urls' = GetListingUrls(hrefs, throws)
         /\ snapshot' = IF throws THEN None ELSE Some(hrefs)
    /\ IF urls' = <<>>
       THEN /\ ret' = Some(results)
            /\ pc' = "done"
            /\ idx' = idx
       ELSE /\ ret' = ret
            /\ pc' = "scrape"
            /\ idx' = 1
    /\ UNCHANGED <<limit, browser, probe, endMarker, pageAt, scrollVars, search_in, results, log>>

\* scraper.py:381-391: one scrape_listing call of the for loop and the test
\* of its record
ScrapeOne ==
    /\ pc = "scrape"
    /\ called' = called \cup {"scrape_listing"}
    /\ \E page \in DetailPages :
         LET url == UrlsToScrape(urls, limit)[idx]
             data == ListingTable[url][page]
         IN  /\ log' = Append(log, [url |-> url, page |-> page,
                                    surface |-> DetailSurface,
                                    data |-> data, fail |-> FailureOf(page),
                                    paced |-> FALSE])
             /\ results' = IF Accepted(data) THEN Append(results, data) ELSE results
             /\ pageAt' = IF page.load = "ok" THEN "detail" ELSE "unknown"
             /\ links' = IF page.load = "ok" THEN <<>> ELSE links
             /\ endMarker' = IF page.load = "ok" THEN FALSE ELSE endMarker
    /\ pc' = "delay"
    /\ UNCHANGED <<limit, browser, probe, scrollVars, search_in, snapshot, urls, idx, ret>>

\* scraper.py:393-397: the delay that ends an iteration of the for loop, and
\* the return after the last one
Delay ==
    /\ pc = "delay"
    /\ called' = called \cup {"human_delay"}
    /\ IF idx < Len(UrlsToScrape(urls, limit))
       THEN /\ idx' = idx + 1
            /\ pc' = "scrape"
            /\ ret' = ret
       ELSE /\ idx' = idx
            /\ pc' = "done"
            /\ ret' = Some(results)
    /\ log' = [log EXCEPT ![Len(log)].paced = PacedAfter(log[Len(log)].data)]
    /\ UNCHANGED <<limit, browser, probe, links, endMarker, pageAt, scrollVars, search_in, snapshot, urls,
                   results>>

\* main.py:89-91 with browser.py:228-241: the finally block of run_scraper
\* closes the browser once scrape_all has returned; an exception raised by
\* the close is caught and reported
CloseBrowser ==
    /\ pc = "done"
    /\ browser = "open"
    /\ \E closes \in BOOLEAN : browser' = IF closes THEN "closed" ELSE "close_failed"
    /\ UNCHANGED <<pc, limit, links, endMarker, pageAt, called, scrollVars,
                   search_in, loopVars, ret, probe>>

Next ==
    \/ SearchFails
    \/ SearchSucceeds
    \/ ScrollStart
    \/ ScrollIter
    \/ ListUrls
    \/ ScrapeOne
    \/ Delay
    \/ CloseBrowser

Spec == Init /\ [][Next]_vars

(* ------------------------------------------- the reviews cascade on its own *)
\* the characters of the texts handed to the reviews cascade
ProbeChars == {"1", "2", "۳", ",", ".", "(", ")", "x", " ", "\t"}

\* every text of at most MaxText of these characters
ProbeTexts == UNION {[1..n -> ProbeChars] : n \in 0..MaxText}

\* what the second selector of the cascade can yield
ProbeSeconds == {Missing, Throws, El(<<"x">>, None),
                 El(<<"(", "1", ",", "2", ".", "3", ")">>, None)}

\* scraper.py:205-223: the reviews selectors are run on an element with any
\* of the texts, followed by a second selector
ProbeReviews ==
    /\ probe = NoProbe
    /\ \E t \in ProbeTexts, q \in ProbeSeconds :
         probe' = [qs |-> <<El(t, None), q>>,
                   out |-> ReviewsCascade(<<El(t, None), q>>)]
    /\ UNCHANGED <<pc, limit, links, endMarker, pageAt, called, scrollVars,
                   search_in, loopVars, ret, browser>>

ProbeInit == Init /\ limit = 1

ProbeNext == ProbeReviews

ProbeSpec == ProbeInit /\ [][ProbeNext]_vars

\* the session is one thread of control that always takes its next step
FairSpec == Spec /\ WF_vars(Next)

TypeOK ==
    /\ pc \in {"search", "scroll_start", "scroll", "urls", "scrape", "delay", "done"}
    /\ limit \in 1..MaxLimit
    /\ links \in Snapshots
    /\ no_change_count \in 0..StallThreshold
    /\ previous_count \in 0..Cap
    /\ Len(results) <= Len(log)

(* -------------------------------------------------------------- the claims *)
\* C1: the sequence scrape_all builds and returns never has more than limit
\* records, whatever the rendered list and the extraction outcomes are.
Thm_C1 == /\ Len(results) <= limit
          /\ ret # None => Len(ret[1]) <= limit

\* a session returned limit records although more candidates were listed
Wit_C1 == ret # None /\ Len(ret[1]) = limit /\ Len(urls) > limit

\* C2: scrape_listing is never invoked twice for the same url in a session,
\* whether the earlier call gave a named record or a failure record.
Thm_C2 == \A i, j \in 1..Len(log) : i # j => log[i].url # log[j].url

\* the list held a repeated href, the first extraction timed out and the
\* session went on to another candidate
Wit_C2 == /\ Len(log) >= 2
          /\ log[1].fail = "goto"
          /\ snapshot # None
          /\ \E i, j \in 1..Len(snapshot[1]) :
                i < j /\ snapshot[1][i] = snapshot[1][j] /\ snapshot[1][i] # ""

\* index of the first occurrence of href h in the list, 0 when h is not there
FirstOcc(hrefs, h) ==
    IF \E k \in 1..Len(hrefs) : hrefs[k] = h
    THEN CHOOSE k \in 1..Len(hrefs) :
            hrefs[k] = h /\ \A m \in 1..(k - 1) : hrefs[m] # h
    ELSE 0

\* C3: the list get_listing_urls returns for a snapshot holds each distinct
\* non-empty href of the snapshot exactly once, in the order of the first
\* occurrences, and nothing else.
Thm_C3 ==
    snapshot # None =>
        LET snap == snapshot[1]
        IN  /\ \A i \in 1..Len(urls) : urls[i] # "" /\ FirstOcc(snap, urls[i]) > 0
            /\ \A k \in 1..Len(snap) :
                  snap[k] # "" => Cardinality({i \in 1..Len(urls) : urls[i] = snap[k]}) = 1
            /\ \A i, j \in 1..Len(urls) :
                  i < j => FirstOcc(snap, urls[i]) < FirstOcc(snap, urls[j])

\* a snapshot with a repeated href and a second href after the repeat
Wit_C3 == /\ snapshot # None
          /\ Len(urls) = 2
          /\ \E i, j, k \in 1..Len(snapshot[1]) :
                /\ i < j /\ j < k
                /\ snapshot[1][i] = snapshot[1][j] /\ snapshot[1][i] # ""
                /\ snapshot[1][k] \notin {"", snapshot[1][i]}

\* an iteration of the loop that measures a count below the target and sees
\* no end marker
PlainIter ==
    /\ pc = "scroll"
    /\ iter'.fault \notin {"measure", "marker"}
    /\ Len(links) < limit
    /\ ~endMarker

\* C4: in an iteration with the target not reached and no end marker, the
\* streak is one more than before when the measured count equals the count
\* measured by the previous iteration and 0 when it differs; the loop ends
\* as stalled in exactly the iterations that bring the streak to 3.
Thm_C4 ==
    [][PlainIter =>
         /\ (iter.n > 0 /\ Len(links) = current_count
                => no_change_count' = no_change_count + 1)
         /\ (iter.n > 0 /\ Len(links) # current_count => no_change_count' = 0)
         /\ (outcome' = "stalled" <=> no_change_count' = 3)
         /\ (outcome' = "stalled" => pc' = "urls" /\ ~iter'.scrolled)
         /\ (no_change_count' < 3 /\ iter'.fault = "none"
                => pc' = "scroll" /\ iter'.scrolled)]_vars

\* the loop stalled on a non-empty list that stayed below the target
Wit_C4 == outcome = "stalled" /\ no_change_count = 3 /\ current_count > 0

\* scroll_results has returned, or the session ended before calling it
ScrollOver == outcome # "none" \/ pc = "done"

\* C5 as stated: scroll_results terminates for every sequence of rendered
\* counts that stays within the cap.
Orig_C5 == <>ScrollOver

\* C5 as amended: scroll_results terminates for every sequence of rendered
\* counts within the cap that does not go on changing for ever: either some
\* measurement differs from the previous one again and again, or the loop
\* ends.
Thm_C5 == ([]<>(pc = "scroll" /\ Len(links) # previous_count)) \/ <>ScrollOver

\* the loop stalled with fewer entries than the target and no end marker
Wit_C5 == /\ outcome = "stalled"
          /\ scrollRet < limit
          /\ scrollRet = Len(links)
          /\ ~endMarker
          /\ iter.hadPrev

\* C6: an iteration that measures a count of at least the target ends the
\* loop as "target reached" with that count as the return value and without
\* a scroll command, whatever the end marker and the streak are; the loop
\* ends that way in no other iteration.
Thm_C6 ==
    [][pc = "scroll" /\ iter'.fault # "measure" =>
         /\ (Len(links) >= limit =>
                /\ outcome' = "target"
                /\ scrollRet' = Len(links)
                /\ ~iter'.scrolled
                /\ links' = links
                /\ pc' = "urls")
         /\ (outcome' = "target" => Len(links) >= limit)]_vars

\* the target was reached exactly, after at least one scroll, with the end
\* marker showing
Wit_C6 == /\ outcome = "target"
          /\ scrollRet = limit
          /\ endMarker
          /\ iter.hadPrev

\* C7: an iteration that sees the end marker with the target not reached
\* ends the loop with the measured count as the return value and without a
\* scroll command, whatever the streak is.
Thm_C7 ==
    [][/\ pc = "scroll"
       /\ iter'.fault \notin {"measure", "marker"}
       /\ endMarker
       /\ Len(links) < limit
       => /\ outcome' = "end"
          /\ scrollRet' = Len(links)
          /\ ~iter'.scrolled
          /\ links' = links
          /\ pc' = "urls"]_vars

\* the end marker ended the loop in the iteration that would have stalled
Wit_C7 == /\ outcome = "end"
          /\ no_change_count = 2
          /\ previous_count = current_count
          /\ scrollRet < limit

\* the search navigation threw or the feed did not appear in time
SearchFailed == search_in.done /\ ~(search_in.gotoOk /\ search_in.feedAppears)

\* C8: when the search navigation throws or the results container does not
\* appear, scrape_all returns the empty list and calls neither
\* scroll_results nor get_listing_urls nor scrape_listing.
Thm_C8 ==
    SearchFailed =>
        /\ pc = "done"
        /\ ret = Some(<<>>)
        /\ called = {"search"}
        /\ log = <<>>
        /\ outcome = "none"
        /\ snapshot = None

\* the navigation succeeded but the feed never appeared
Wit_C8 == SearchFailed /\ search_in.gotoOk /\ ret # None

\* a query of a selector loop threw while the loop was still running: outs
\* are the attempts of the queries qs, and the loop ends at the first attempt
\* that sets the field
ThrewInLoop(qs, outs) ==
    \E i \in 1..Len(qs) : qs[i].st = "throws" /\ \A j \in 1..(i - 1) : outs[j] = None

\* an evaluation threw during the extraction of the page: in one of the
\* eight selector loops, or in the tel: link query made when the phone loop
\* found no phone
EvaluationThrew(page) ==
    /\ FailureOf(page) = "none"
    /\ \/ ThrewInLoop(page.name, [i \in 1..Len(page.name) |-> TryText(page.name[i])])
       \/ ThrewInLoop(page.rating, [i \in 1..Len(page.rating) |-> TryRating(page.rating[i])])
       \/ ThrewInLoop(page.reviews,
                      [i \in 1..Len(page.reviews) |-> TryReviews(page.reviews[i])])
       \/ ThrewInLoop(page.category,
                      [i \in 1..Len(page.category) |-> TryText(page.category[i])])
       \/ ThrewInLoop(page.address,
                      [i \in 1..Len(page.address) |-> TryAddress(page.address[i])])
       \/ ThrewInLoop(page.phone, [i \in 1..Len(page.phone) |-> TryPhone(page.phone[i])])
       \/ ThrewInLoop(page.website,
                      [i \in 1..Len(page.website) |-> TryWebsite(page.website[i])])
       \/ ThrewInLoop(page.hours, [i \in 1..Len(page.hours) |-> TryHours(page.hours[i])])
       \/ (~Truthy(PhoneCascade(page.phone)) /\ page.tel.st = "throws")

\* a failure while extracting one candidate: the navigation timed out, the
\* heading never appeared, or an evaluation threw
ExtractionFailed(entry) == entry.fail # "none" \/ EvaluationThrew(entry.page)

\* the named records of the extractions that met no failure, in order
RECURSIVE UnfailedRecords(_)
UnfailedRecords(entries) ==
    IF entries = <<>> THEN <<>>
    ELSE (IF ~ExtractionFailed(Head(entries)) /\ Truthy(Head(entries).data.name)
          THEN <<Head(entries).data>> ELSE <<>>) \o UnfailedRecords(Tail(entries))

\* C9: a failure while extracting one candidate (navigation timeout, heading
\* never appearing, or an evaluation throwing) does not end the session and
\* the candidate adds no record: the results are the named records of the
\* extractions that met no failure, and a session that returns after listing
\* candidates has called scrape_listing for each of the first limit
\* candidates, in order.
Orig_C9 ==
    /\ results = UnfailedRecords(log)
    /\ (ret # None /\ urls # <<>> =>
           /\ Len(log) = Min(limit, Len(urls))
           /\ \A i \in 1..Len(log) : log[i].url = urls[i])

\* C10: a failed scrape_listing call returns a record whose eight fields
\* are all absent and whose source url is the url it was called with.
Thm_C10 ==
    \A i \in 1..Len(log) :
        log[i].fail # "none" =>
            LET d == log[i].data
            IN  /\ d.name = None /\ d.rating = None /\ d.reviews_count = None
                /\ d.category = None /\ d.address = None /\ d.phone = None
                /\ d.website = None /\ d.hours = None
                /\ d.google_maps_url = log[i].url

\* a session that met both kinds of failure
Wit_C10 == \E i, j \in 1..Len(log) : log[i].fail = "goto" /\ log[j].fail = "heading"

\* C11: every record of the results of scrape_all, and so of the list it
\* returns, has a name that is neither absent nor empty.
Thm_C11 ==
    /\ \A i \in 1..Len(results) :
          results[i].name # None /\ results[i].name[1] # <<>>
    /\ ret # None => \A i \in 1..Len(ret[1]) :
          ret[1][i].name # None /\ ret[1][i].name[1] # <<>>

\* a session that extracted one record with an empty name and one with no
\* name, both with other fields present, and returned neither
Wit_C11 ==
    /\ ret # None
    /\ \E i, j \in 1..Len(log) :
          /\ log[i].data.name = Some(<<>>) /\ log[i].data.rating # None
          /\ log[j].data.name = None /\ log[j].fail = "none"
          /\ log[j].data.phone # None
    /\ ret[1] = <<>>

\* every listed candidate has been handed to scrape_listing
AllProcessed == \A k \in 1..Len(urls) : \E i \in 1..Len(log) : log[i].url = urls[k]

\* C12: the session stops only when the emitted count has reached the limit
\* or no unprocessed candidate is left: a session that returns after a
\* discovery pass that ended normally has emitted limit records or has
\* processed every candidate of the list.
Orig_C12 ==
    (ret # None /\ outcome \in {"target", "end", "stalled"} /\ snapshot # None)
        => (Len(ret[1]) >= limit \/ AllProcessed)

\* C13: discovery ends on the target-reached path only when at least
\* 3 x limit entries are rendered.
Orig_C13 == outcome = "target" => scrollRet >= 3 * limit

\* C14: every detail-page navigation is made on a secondary surface, and the
\* primary surface still shows the results list while candidates are
\* extracted.
Orig_C14 ==
    /\ \A i \in 1..Len(log) : log[i].surface = "secondary"
    /\ (log # <<>> => pageAt = "feed")

\* the pages of the browser that are open: the page create_stealth_browser
\* opened, until the browser is closed; the session opens no other page
OpenPages == IF browser = "closed" THEN {} ELSE {"primary"}

\* C15: when the session has returned, the surface it used for detail
\* extraction is closed.
Orig_C15 == ret # None => \A i \in 1..Len(log) : log[i].surface \notin OpenPages

\* the value scroll_results returns when there is no results container
NoFeedReturn == ScrollReturn("nofeed", 0)

\* C16: the value scroll_results gives for a missing results container is
\* none of the values a normal end of the loop (target reached, end marker,
\* stalled) gives, so the caller can tell the two apart.
Orig_C16 == outcome \in {"target", "end", "stalled"} => scrollRet # NoFeedReturn

\* C17: the loop ends as stalled only when the last three scroll commands
\* each left the rendered count unchanged.
Orig_C17 == outcome = "stalled" => iter.same >= 3

\* the stripped text of the first selector of a cascade whose element holds
\* non-empty text
RECURSIVE FirstNonEmptyText(_)
FirstNonEmptyText(qs) ==
    IF qs = <<>> THEN None
    ELSE IF Head(qs).st = "el" /\ Strip(Head(qs).text) # <<>>
         THEN Some(Strip(Head(qs).text))
         ELSE FirstNonEmptyText(Tail(qs))

\* the attribute of the first selector of a cascade whose element holds a
\* non-empty attribute
RECURSIVE FirstNonEmptyAttr(_)
FirstNonEmptyAttr(qs) ==
    IF qs = <<>> THEN None
    ELSE IF Head(qs).st = "el" /\ Head(qs).attr # None /\ Head(qs).attr[1] # <<>>
         THEN Head(qs).attr
         ELSE FirstNonEmptyAttr(Tail(qs))

\* C18: a field holds the content of the first strategy of its cascade that
\* yields non-empty content, a strategy with empty content being skipped;
\* stated for the fields stored as read: name, category and website.
Orig_C18 ==
    \A i \in 1..Len(log) :
        log[i].fail = "none" =>
            /\ log[i].data.name = FirstNonEmptyText(log[i].page.name)
            /\ log[i].data.category = FirstNonEmptyText(log[i].page.category)
            /\ log[i].data.website = FirstNonEmptyAttr(log[i].page.website)

\* C19: the rating of every record scrape_listing returns is absent or a
\* number between 0 and 5.
Orig_C19 ==
    \A i \in 1..Len(log) :
        LET r == log[i].data.rating
        IN  r = None \/ (0 <= r[1].num /\ r[1].num <= 5 * r[1].den)

\* the text without its commas and periods
NoSeparators(t) == SelectSeq(t, LAMBDA c : c \notin {",", "."})

\* the number a run of digits writes
RECURSIVE DecValue(_)
DecValue(run) ==
    IF run = <<>> THEN 0
    ELSE DigitVal(Head(run)) * Pow10(Len(run) - 1) + DecValue(Tail(run))

\* the count the reviews normalization is to give for a text: the number
\* written by the first run of digits of the text without its commas and
\* periods, absent when the text has no digit
ExpectedReviews(t) ==
    LET c == NoSeparators(t)
        ds == {k \in 1..Len(c) : IsDigit(c[k])}
    IN  IF ds = {} THEN None
        ELSE LET i == CHOOSE k \in ds : \A m \in ds : k <= m
                 j == CHOOSE k \in i..Len(c) :
                         /\ \A m \in i..k : IsDigit(c[m])
                         /\ (k = Len(c) \/ ~IsDigit(c[k + 1]))
             IN  Some(DecValue(SubSeq(c, i, j)))

\* C20: the reviews count is the non-negative integer written by the first
\* run of digits of the selected text with every comma and period removed;
\* a text without a digit leaves the count to the next strategy of the
\* cascade.
Thm_C20 ==
    probe # NoProbe =>
        LET first == ExpectedReviews(probe.qs[1].text)
            second == IF probe.qs[2].st = "el"
                      THEN ExpectedReviews(probe.qs[2].text) ELSE None
        IN  /\ probe.out = IF first # None THEN first ELSE second
            /\ probe.out # None => probe.out[1] >= 0

\* a first text without a digit, and a second one with parentheses, a comma
\* and a period that gives 123
Wit_C20 ==
    /\ probe # NoProbe
    /\ probe.qs[1].text = <<"(", ".", ")">>
    /\ probe.qs[2].st = "el"
    /\ probe.out = Some(123)

\* C21: the pacing delay runs after every scrape_listing call, whatever the
\* call produced, and before the next call: only the call made last can be
\* without its delay, no call is made while an earlier one is without it,
\* and none is without it when the session returns.
Thm_C21 ==
    /\ \A i \in 1..(Len(log) - 1) : log[i].paced
    /\ Cardinality({i \in 1..Len(log) : ~log[i].paced}) <= 1
    /\ (pc = "scrape" \/ ret # None => \A i \in 1..Len(log) : log[i].paced)
    /\ (pc = "delay" => log # <<>> /\ ~log[Len(log)].paced)

\* a returned session whose first record was accepted and whose second was
\* discarded, each followed by its delay
Wit_C21 ==
    /\ ret # None
    /\ Len(log) = 2
    /\ log[1].data.name \notin {None, Some(<<>>)}
    /\ log[2].data.name \in {None, Some(<<>>)}
    /\ log[1].paced /\ log[2].paced

\* C22: the candidates handed to scrape_listing are the first min(limit, n)
\* entries of the n-entry candidate list, which holds no entry twice, each
\* once and in the order of the list; so there are at most limit detail
\* navigations, and the emitted records follow the visiting order.
Thm_C22 ==
    /\ Len(log) <= Min(limit, Len(urls))
    /\ Len(log) <= limit
    /\ \A i \in 1..Len(log) : log[i].url = urls[i]
    /\ \A i, j \in 1..Len(urls) : i # j => urls[i] # urls[j]
    /\ (ret # None => Len(log) = Min(limit, Len(urls)))
    /\ \E f \in [1..Len(results) -> 1..Len(log)] :
          /\ \A k \in 1..Len(results) : results[k] = log[f[k]].data
          /\ \A k, m \in 1..Len(results) : k < m => f[k] < f[m]

\* a returned session whose list held more candidates than the limit, read
\* from a snapshot with a repeated href
Wit_C22 ==
    /\ ret # None
    /\ snapshot # None
    /\ Len(snapshot[1]) > Len(urls)
    /\ Len(urls) > limit
    /\ Len(log) = limit
    /\ log[1].url = urls[1]
    /\ Len(results) = 1
====
